---- MODULE Spec2Model ----
(***************************************************************************)
(* A model of the-super-tiny-compiler: tokenizer, parser, traverser,       *)
(* transformer, codeGenerator and compiler.                                *)
(*                                                                         *)
(* A JavaScript string is a sequence of one-character strings.  JavaScript *)
(* indexes from 0 and TLA+ from 1: input[current] is CharAt(input,         *)
(* current).  The JavaScript value undefined is the string "undefined",    *)
(* which is no character.                                                  *)
(***************************************************************************)
EXTENDS Integers, Sequences, FiniteSets, TLC

VARIABLES input, pc, current, value, tokens, ast, context, heap, newAst,
          output, error, trace

vars == <<input, pc, current, value, tokens, ast, context, heap, newAst,
          output, error, trace>>

(***************************************************************************)
(* Bounds of the model.                                                    *)
(***************************************************************************)
\* Longest input drawn character by character.
MaxInputLen == 4
\* Most lexemes of a well-formed source program.
MaxLexemes == 7
\* Longest token sequence handed to parser directly.
MaxTokens == 4
\* Iterations of a loop that no longer consumes input, after which the
\* engine's resource limit is taken to be reached.
MaxSpin == 2

(***************************************************************************)
(* JavaScript values and the regular expressions of tokenizer.             *)
(***************************************************************************)
undefined == "undefined"

\* String(x) for a character or undefined, as RegExp.prototype.test and += do.
JsString(c) ==
  IF c = undefined THEN <<"u", "n", "d", "e", "f", "i", "n", "e", "d">>
  ELSE <<c>>

CharAt(s, i) == IF i >= 0 /\ i < Len(s) THEN s[i + 1] ELSE undefined

WhitespaceChars == {" "}
DigitChars == {"0", "1", "2", "3", "4", "5", "6", "7", "8", "9"}
LowerChars == {"a", "b", "c", "d", "e", "f", "g", "h", "i", "j", "k", "l", "m",
               "n", "o", "p", "q", "r", "s", "t", "u", "v", "w", "x", "y", "z"}
UpperChars == {"A", "B", "C", "D", "E", "F", "G", "H", "I", "J", "K", "L", "M",
               "N", "O", "P", "Q", "R", "S", "T", "U", "V", "W", "X", "Y", "Z"}

\* re.test(c): the unanchored one-character class matches somewhere in String(c).
RegexTest(class, c) == \E i \in DOMAIN JsString(c) : JsString(c)[i] \in class

\* The class of \W in place of \s: every character that is no letter, digit
\* or underscore counts as whitespace.
WHITESPACE_NonWord(c) ==
  \E i \in DOMAIN JsString(c) :
    JsString(c)[i] \notin DigitChars \cup LowerChars \cup UpperChars \cup {"_"}

WHITESPACE(c) == RegexTest(WhitespaceChars, c)
NUMBERS(c) == RegexTest(DigitChars, c)
LETTERS(c) == RegexTest(LowerChars \cup UpperChars, c)

Token(t, v) == [type |-> t, value |-> v]

(***************************************************************************)
(* The inputs.                                                             *)
(***************************************************************************)
Chars == {"(", ")", " ", "1", "a", "B", "\"", "@"}

SeqsUpTo(S, n) == UNION {[1..k -> S] : k \in 0..n}

CharInputs == SeqsUpTo(Chars, MaxInputLen)

NoTokens == <<>>
NoAst == [type |-> "undefined"]
NoContext == <<>>
NoHeap == <<>>

InitCommon ==
  /\ current = 0
  /\ value = <<>>
  /\ tokens = NoTokens
  /\ ast = NoAst
  /\ context = NoContext
  /\ heap = NoHeap
  /\ newAst = 0
  /\ output = <<>>
  /\ error = "none"
  /\ trace = <<>>

(***************************************************************************)
(* tokenizer, one action per branch of the scan loop and per iteration of  *)
(* its inner loops.                                                        *)
(***************************************************************************)
char == CharAt(input, current)

AtScan == pc = "tokenizer" /\ current < Len(input)

TokFrame == UNCHANGED <<input, ast, context, heap, newAst, output, trace>>

TokParenOpen ==
  /\ AtScan
  /\ char = "("
  /\ tokens' = Append(tokens, Token("paren", <<"(">>))
  /\ current' = current + 1
  /\ UNCHANGED <<pc, value, error>>
  /\ TokFrame

TokParenClose ==
  /\ AtScan
  /\ char = ")"
  /\ tokens' = Append(tokens, Token("paren", <<")">>))
  /\ current' = current + 1
  /\ UNCHANGED <<pc, value, error>>
  /\ TokFrame

TokWhitespace ==
  /\ AtScan
  /\ char \notin {"(", ")"}
  /\ WHITESPACE(char)
  /\ current' = current + 1
  /\ UNCHANGED <<pc, value, tokens, error>>
  /\ TokFrame

IsNumberStart(c) == c \notin {"(", ")"} /\ ~WHITESPACE(c) /\ NUMBERS(c)

TokNumberStart ==
  /\ AtScan
  /\ IsNumberStart(char)
  /\ value' = <<>>
  /\ pc' = "tok_number"
  /\ UNCHANGED <<current, tokens, error>>
  /\ TokFrame

TokNumberLoop ==
  /\ pc = "tok_number"
  /\ NUMBERS(char)
  /\ value' = value \o JsString(char)
  /\ current' = current + 1
  /\ UNCHANGED <<pc, tokens, error>>
  /\ TokFrame

TokNumberEnd ==
  /\ pc = "tok_number"
  /\ ~NUMBERS(char)
  /\ tokens' = Append(tokens, Token("number", value))
  /\ pc' = "tokenizer"
  /\ UNCHANGED <<current, value, error>>
  /\ TokFrame

IsStringStart(c) ==
  c \notin {"(", ")"} /\ ~WHITESPACE(c) /\ ~NUMBERS(c) /\ c = "\""

TokStringStart ==
  /\ AtScan
  /\ IsStringStart(char)
  /\ value' = <<>>
  /\ current' = current + 1
  /\ pc' = "tok_string"
  /\ UNCHANGED <<tokens, error>>
  /\ TokFrame

\* The loop tests only char !== '"': past the end of the input char is
\* undefined and the loop goes on.
TokStringLoop ==
  /\ pc = "tok_string"
  /\ char # "\""
  /\ current < Len(input) + MaxSpin
  /\ value' = value \o JsString(char)
  /\ current' = current + 1
  /\ UNCHANGED <<pc, tokens, error>>
  /\ TokFrame

TokStringEnd ==
  /\ pc = "tok_string"
  /\ char = "\""
  /\ current' = current + 1
  /\ tokens' = Append(tokens, Token("string", value))
  /\ pc' = "tokenizer"
  /\ UNCHANGED <<value, error>>
  /\ TokFrame

IsNameStart(c) ==
  /\ c \notin {"(", ")", "\""}
  /\ ~WHITESPACE(c)
  /\ ~NUMBERS(c)
  /\ LETTERS(c)

TokNameStart ==
  /\ AtScan
  /\ IsNameStart(char)
  /\ value' = <<>>
  /\ pc' = "tok_name"
  /\ UNCHANGED <<current, tokens, error>>
  /\ TokFrame

\* LETTERS.test(undefined) tests the string "undefined", which has letters.
TokNameLoop ==
  /\ pc = "tok_name"
  /\ LETTERS(char)
  /\ current < Len(input) + MaxSpin
  /\ value' = value \o JsString(char)
  /\ current' = current + 1
  /\ UNCHANGED <<pc, tokens, error>>
  /\ TokFrame

TokNameEnd ==
  /\ pc = "tok_name"
  /\ ~LETTERS(char)
  /\ tokens' = Append(tokens, Token("name", value))
  /\ pc' = "tokenizer"
  /\ UNCHANGED <<current, value, error>>
  /\ TokFrame

IsUnknownChar(c) ==
  /\ c \notin {"(", ")", "\""}
  /\ ~WHITESPACE(c)
  /\ ~NUMBERS(c)
  /\ ~LETTERS(c)

TokThrow ==
  /\ AtScan
  /\ IsUnknownChar(char)
  /\ pc' = "threw"
  /\ error' = "TypeError: I dont know what this character is"
  /\ UNCHANGED <<current, value, tokens>>
  /\ TokFrame

\* An inner loop that runs past the end of the input grows value until the
\* engine gives up: a RangeError (string length) or the process running out
\* of memory, whichever limit the build reaches first.
TokExhaust ==
  /\ pc \in {"tok_string", "tok_name"}
  /\ current >= Len(input) + MaxSpin
  /\ \/ pc' = "threw" /\ error' = "RangeError: Invalid string length"
     \/ pc' = "crashed" /\ error' = "out of memory"
  /\ UNCHANGED <<current, value, tokens>>
  /\ TokFrame

TokReturn ==
  /\ pc = "tokenizer"
  /\ current >= Len(input)
  /\ pc' = "tokenized"
  /\ UNCHANGED <<current, value, tokens, error>>
  /\ TokFrame

tokenizer ==
  \/ TokParenOpen
  \/ TokParenClose
  \/ TokWhitespace
  \/ TokNumberStart
  \/ TokNumberLoop
  \/ TokNumberEnd
  \/ TokStringStart
  \/ TokStringLoop
  \/ TokStringEnd
  \/ TokNameStart
  \/ TokNameLoop
  \/ TokNameEnd
  \/ TokThrow
  \/ TokExhaust
  \/ TokReturn

(***************************************************************************)
(* parser.  walk() is the recursive operator walk; the loop of parser over *)
(* the top-level expressions is taken one iteration per action.            *)
(***************************************************************************)
UndefinedNode == [type |-> "undefined"]

HasToken(toks, cur) == cur >= 0 /\ cur < Len(toks)

IsCloseParen(token) == token.type = "paren" /\ token.value = <<")">>

WalkReturn(node, cur) == [status |-> "return", node |-> node, current |-> cur]
\* Reading .type or .value of tokens[current] past the end of tokens.
WalkThrow(cur) == [status |-> "throw", node |-> UndefinedNode, current |-> cur]
\* The loop over the params goes on without consuming a token.
WalkSpin(node, cur) == [status |-> "spin", node |-> node, current |-> cur]

RECURSIVE walk(_, _), walkParams(_, _, _)

walk(toks, cur) ==
  IF ~HasToken(toks, cur) THEN WalkThrow(cur)
  ELSE
    LET token == toks[cur + 1] IN
    IF token.type = "number"
      THEN WalkReturn([type |-> "NumberLiteral", value |-> token.value], cur + 1)
    ELSE IF token.type = "string"
      THEN WalkReturn([type |-> "StringLiteral", value |-> token.value], cur + 1)
    ELSE IF token.type = "paren" /\ token.value = <<"(">>
      THEN IF ~HasToken(toks, cur + 1)
             THEN WalkThrow(cur + 1)
             ELSE walkParams(toks, cur + 2,
                             [type |-> "CallExpression",
                              name |-> toks[cur + 2].value,
                              params |-> <<>>])
    ELSE WalkReturn(UndefinedNode, cur)

\* The while loop of walk, at its test, with current = cur.
walkParams(toks, cur, node) ==
  IF ~HasToken(toks, cur) THEN WalkThrow(cur)
  ELSE IF IsCloseParen(toks[cur + 1]) THEN WalkReturn(node, cur + 1)
  ELSE IF Len(node.params) >= Len(toks) + MaxSpin THEN WalkSpin(node, cur)
  ELSE
    LET r == walk(toks, cur) IN
    IF r.status # "return" THEN r
    ELSE walkParams(toks, r.current,
                    [node EXCEPT !.params = Append(@, r.node)])

ParserFrame == UNCHANGED <<input, value, tokens, context, heap, newAst, output, trace>>

ParserStart ==
  /\ pc = "tokenized"
  /\ current' = 0
  /\ ast' = [type |-> "Program", body |-> <<>>]
  /\ pc' = "parser"
  /\ UNCHANGED error
  /\ ParserFrame

ParserWalk ==
  /\ pc = "parser"
  /\ current < Len(tokens)
  /\ Len(ast.body) < Len(tokens) + MaxSpin
  /\ LET r == walk(tokens, current) IN
       IF r.status = "return"
         THEN /\ ast' = [ast EXCEPT !.body = Append(@, r.node)]
              /\ current' = r.current
              /\ UNCHANGED <<pc, error>>
       ELSE IF r.status = "throw"
         THEN /\ pc' = "threw"
              /\ error' = "TypeError: Cannot read properties of undefined"
              /\ current' = r.current
              /\ UNCHANGED ast
       ELSE /\ pc' = "walk_spin"
            /\ current' = r.current
            /\ UNCHANGED <<ast, error>>
  /\ ParserFrame

\* A loop that pushes undefined without consuming a token grows its array
\* until the engine gives up: a RangeError (array length) or the process
\* running out of memory, whichever limit the build reaches first.
ParserExhaust ==
  /\ \/ pc = "walk_spin"
     \/ pc = "parser" /\ current < Len(tokens)
                      /\ Len(ast.body) >= Len(tokens) + MaxSpin
  /\ \/ pc' = "threw" /\ error' = "RangeError: Invalid array length"
     \/ pc' = "crashed" /\ error' = "out of memory"
  /\ UNCHANGED <<current, ast>>
  /\ ParserFrame

ParserReturn ==
  /\ pc = "parser"
  /\ current >= Len(tokens)
  /\ pc' = "parsed"
  /\ UNCHANGED <<current, ast, error>>
  /\ ParserFrame

parser ==
  \/ ParserStart
  \/ ParserWalk
  \/ ParserExhaust
  \/ ParserReturn

\* The tokens tokenizer can return: any sequence of parens, names, numbers
\* and strings.
TokenAlphabet ==
  { Token("paren", <<"(">>), Token("paren", <<")">>), Token("name", <<"a">>),
    Token("number", <<"1">>), Token("string", <<"B">>) }

InitParse ==
  /\ input = <<>>
  /\ pc = "tokenized"
  /\ current = 0
  /\ value = <<>>
  /\ tokens \in SeqsUpTo(TokenAlphabet, MaxTokens)
  /\ ast = NoAst
  /\ context = NoContext
  /\ heap = NoHeap
  /\ newAst = 0
  /\ output = <<>>
  /\ error = "none"
  /\ trace = <<>>

SpecParse == InitParse /\ [][parser]_vars

(***************************************************************************)
(* traverser.  A node of the source AST is named by its path from the      *)
(* root: the root is <<>> and the i-th child of the node at p is           *)
(* Append(p, i).  The parent handed to a callback is the parent's path,    *)
(* and null for the root.  The visitor's state (what its callbacks write)  *)
(* is threaded through the traversal.                                      *)
(***************************************************************************)
null == <<0>>

Children(node) ==
  IF node.type = "Program" THEN node.body
  ELSE IF node.type = "CallExpression" THEN node.params
  ELSE <<>>

RECURSIVE NodeAt(_, _)
NodeAt(node, path) ==
  IF path = <<>> THEN node
  ELSE NodeAt(Children(node)[Head(path)], Tail(path))

NodeTypeAt(root, path) == IF path = null THEN "null" ELSE NodeAt(root, path).type

\* The target AST lives in a heap: an object's address is its index, a
\* JavaScript array is an object of type Array, and a field that holds an
\* object or an array holds its address.
Alloc(hp, obj) == Append(hp, obj)
LastAddr(hp) == Len(hp)
Push(hp, arr, addr) == [hp EXCEPT ![arr].elems = Append(@, addr)]

\* The assignment to _context lost.
SetContext_Lost(ctx, path, arr) == ctx

\* node._context = arr, for the node at path.
SetContext(ctx, path, arr) == (path :> arr) @@ ctx

VisitorState(hp, ctx, log) ==
  [status |-> "ok", heap |-> hp, context |-> ctx, log |-> log]

VisitorThrow(st) == [st EXCEPT !.status = "throw"]

\* parent._context.push(obj), obj already allocated at addr.
PushToParent(st, parent, addr) ==
  IF parent = null \/ parent \notin DOMAIN st.context THEN VisitorThrow(st)
  ELSE [st EXCEPT !.heap = Push(@, st.context[parent], addr)]

\* NumberLiteral.enter and StringLiteral.enter of transformer's visitor.
LiteralEnter(st, node, parent) ==
  LET hp == Alloc(st.heap, [type |-> node.type, value |-> node.value])
  IN  PushToParent([st EXCEPT !.heap = hp], parent, LastAddr(hp))

\* The test on the parent dropped, one way and the other.
WrapsInStatement_Always(root, parent) == TRUE

WrapsInStatement_Never(root, parent) == FALSE

\* parent.type !== "CallExpression"
WrapsInStatement(root, parent) == NodeTypeAt(root, parent) # "CallExpression"

\* CallExpression.enter of transformer's visitor.
CallExpressionEnter(st, root, node, path, parent) ==
  LET hp1 == Alloc(st.heap, [type |-> "Identifier", name |-> node.name])
      callee == LastAddr(hp1)
      hp2 == Alloc(hp1, [type |-> "Array", elems |-> <<>>])
      arguments == LastAddr(hp2)
      hp3 == Alloc(hp2, [type |-> "CallExpression", callee |-> callee,
                         arguments |-> arguments])
      expression == LastAddr(hp3)
      ctx == SetContext(st.context, path, arguments)
  IN  IF parent = null THEN VisitorThrow(st)
      ELSE IF WrapsInStatement(root, parent)
        THEN LET hp4 == Alloc(hp3, [type |-> "ExpressionStatement",
                                    expression |-> expression])
             IN  PushToParent([st EXCEPT !.heap = hp4, !.context = ctx],
                              parent, LastAddr(hp4))
        ELSE PushToParent([st EXCEPT !.heap = hp3, !.context = ctx],
                          parent, expression)

Event(kind, path, parent) == [kind |-> kind, node |-> path, parent |-> parent]

SourceTypes == {"Program", "CallExpression", "NumberLiteral", "StringLiteral"}

\* visitor[node.type] && methods.enter, for the two visitors of the model:
\* transformer's, and a recorder with enter and exit for every node type.
HasEnter(visitor, type) ==
  IF visitor = "transformer"
    THEN type \in {"NumberLiteral", "StringLiteral", "CallExpression"}
    ELSE type \in SourceTypes

HasExit(visitor, type) ==
  IF visitor = "transformer" THEN FALSE ELSE type \in SourceTypes

Enter(visitor, st, root, path, parent) ==
  LET node == NodeAt(root, path) IN
  IF visitor = "transformer"
    THEN IF node.type = "CallExpression"
           THEN CallExpressionEnter(st, root, node, path, parent)
           ELSE LiteralEnter(st, node, parent)
    ELSE [st EXCEPT !.log = Append(@, Event("enter", path, parent))]

Exit(visitor, st, root, path, parent) ==
  [st EXCEPT !.log = Append(@, Event("exit", path, parent))]

RECURSIVE traverseNode(_, _, _, _, _), traverseArray(_, _, _, _, _)

\* The last child of every array left out.
traverseArray_SkipsLast(st, root, parent, i, visitor) ==
  IF st.status # "ok" \/ i >= Len(Children(NodeAt(root, parent))) THEN st
  ELSE traverseArray(traverseNode(st, root, Append(parent, i), parent, visitor),
                     root, parent, i + 1, visitor)

\* array.forEach(child => traverseNode(child, parent)), from the i-th child on.
traverseArray(st, root, parent, i, visitor) ==
  IF st.status # "ok" \/ i > Len(Children(NodeAt(root, parent))) THEN st
  ELSE traverseArray(traverseNode(st, root, Append(parent, i), parent, visitor),
                     root, parent, i + 1, visitor)

traverseNode(st, root, path, parent, visitor) ==
  LET type == NodeAt(root, path).type
      entered == IF HasEnter(visitor, type)
                   THEN Enter(visitor, st, root, path, parent)
                   ELSE st
      visited == IF entered.status # "ok" THEN entered
                 ELSE IF type \in {"Program", "CallExpression"}
                   THEN traverseArray(entered, root, path, 1, visitor)
                 ELSE IF type \in {"NumberLiteral", "StringLiteral"}
                   THEN entered
                 ELSE VisitorThrow(entered)
  IN  IF visited.status = "ok" /\ HasExit(visitor, type)
        THEN Exit(visitor, visited, root, path, parent)
        ELSE visited

traverser(st, root, visitor) == traverseNode(st, root, <<>>, null, visitor)

(***************************************************************************)
(* transformer.  node._context is context[path of node]: the address of    *)
(* the target array the node's children append into.                       *)
(***************************************************************************)
\* newAst = {type: "Program", body: []}; ast._context = newAst.body
NewAstHeap == <<[type |-> "Array", elems |-> <<>>], [type |-> "Program", body |-> 1]>>
NewAstAddr == Len(NewAstHeap)
RootContext == SetContext(NoContext, <<>>, NewAstHeap[NewAstAddr].body)

transformer(root) ==
  traverser(VisitorState(NewAstHeap, RootContext, <<>>), root, "transformer")

(***************************************************************************)
(* codeGenerator.                                                          *)
(***************************************************************************)
RECURSIVE Join(_, _)
Join(strs, sep) ==
  IF strs = <<>> THEN <<>>
  ELSE IF Len(strs) = 1 THEN strs[1]
  ELSE strs[1] \o sep \o Join(Tail(strs), sep)

TargetTypes == {"Program", "ExpressionStatement", "CallExpression",
                "Identifier", "NumberLiteral", "StringLiteral"}

RECURSIVE codeGenerator(_, _)
codeGenerator(hp, addr) ==
  LET node == hp[addr] IN
  IF node.type = "Program"
    THEN Join([i \in DOMAIN hp[node.body].elems |->
                 codeGenerator(hp, hp[node.body].elems[i])], <<"\n">>)
  ELSE IF node.type = "ExpressionStatement"
    THEN codeGenerator(hp, node.expression) \o <<";">>
  ELSE IF node.type = "CallExpression"
    THEN codeGenerator(hp, node.callee) \o <<"(">>
         \o Join([i \in DOMAIN hp[node.arguments].elems |->
                    codeGenerator(hp, hp[node.arguments].elems[i])], <<",", " ">>)
         \o <<")">>
  ELSE IF node.type = "Identifier" THEN node.name
  ELSE IF node.type = "NumberLiteral" THEN node.value
  ELSE IF node.type = "StringLiteral" THEN <<"\"">> \o node.value \o <<"\"">>
  ELSE <<>>

\* The default branch of the switch: a node of no target type.
RECURSIVE codeGeneratorThrows(_, _)
codeGeneratorThrows(hp, addr) ==
  LET node == hp[addr] IN
  IF node.type = "Program"
    THEN \E i \in DOMAIN hp[node.body].elems :
           codeGeneratorThrows(hp, hp[node.body].elems[i])
  ELSE IF node.type = "ExpressionStatement"
    THEN codeGeneratorThrows(hp, node.expression)
  ELSE IF node.type = "CallExpression"
    THEN \/ codeGeneratorThrows(hp, node.callee)
         \/ \E i \in DOMAIN hp[node.arguments].elems :
              codeGeneratorThrows(hp, hp[node.arguments].elems[i])
  ELSE node.type \notin TargetTypes

(***************************************************************************)
(* compiler: the statements after parser returns, and traverser called     *)
(* with the recording visitor on the parsed AST.                           *)
(***************************************************************************)
Transformer ==
  /\ pc = "parsed"
  /\ LET r == transformer(ast) IN
       /\ heap' = r.heap
       /\ context' = r.context
       /\ IF r.status = "ok"
            THEN newAst' = NewAstAddr /\ pc' = "transformed" /\ UNCHANGED error
            ELSE /\ pc' = "threw"
                 /\ error' = "TypeError: Cannot read properties of undefined"
                 /\ UNCHANGED newAst
  /\ UNCHANGED <<input, current, value, tokens, ast, output, trace>>

CodeGenerator ==
  /\ pc = "transformed"
  /\ IF codeGeneratorThrows(heap, newAst)
       THEN pc' = "threw" /\ error' = "TypeError: node.type" /\ UNCHANGED output
       ELSE /\ output' = codeGenerator(heap, newAst)
            /\ pc' = "done"
            /\ UNCHANGED error
  /\ UNCHANGED <<input, current, value, tokens, ast, context, heap, newAst, trace>>

Traverser ==
  /\ pc = "parsed"
  /\ LET r == traverser(VisitorState(NoHeap, NoContext, <<>>), ast, "recorder") IN
       /\ trace' = r.log
       /\ IF r.status = "ok"
            THEN pc' = "traversed" /\ UNCHANGED error
            ELSE pc' = "threw" /\ error' = "TypeError: node.type"
  /\ UNCHANGED <<input, current, value, tokens, ast, context, heap, newAst, output>>

(***************************************************************************)
(* The source programs: lexemes separated by one space.                    *)
(***************************************************************************)
Lexemes == {<<"(">>, <<")">>, <<"a">>, <<"1">>, <<"\"", "B", "\"">>}

\* program ::= expr*     expr ::= number | string | "(" name expr* ")"
RECURSIVE WellFormedFrom(_, _, _, _)
WellFormedFrom(ls, i, depth, expectName) ==
  IF i > Len(ls) THEN depth = 0 /\ ~expectName
  ELSE IF expectName THEN ls[i] = <<"a">> /\ WellFormedFrom(ls, i + 1, depth, FALSE)
  ELSE IF ls[i] = <<"(">> THEN WellFormedFrom(ls, i + 1, depth + 1, TRUE)
  ELSE IF ls[i] = <<")">> THEN depth > 0 /\ WellFormedFrom(ls, i + 1, depth - 1, FALSE)
  ELSE ls[i] # <<"a">> /\ WellFormedFrom(ls, i + 1, depth, FALSE)

WellFormed(ls) == WellFormedFrom(ls, 1, 0, FALSE)

ProgramInputs ==
  {Join(ls, <<" ">>) : ls \in {l \in SeqsUpTo(Lexemes, MaxLexemes) : WellFormed(l)}}

Init ==
  /\ input \in CharInputs \cup ProgramInputs
  /\ pc = "tokenizer"
  /\ InitCommon

Next ==
  \/ tokenizer
  \/ parser
  \/ Transformer
  \/ CodeGenerator
  \/ Traverser

Spec == Init /\ [][Next]_vars

(***************************************************************************)
(* What the properties speak of.                                           *)
(***************************************************************************)
RECURSIVE Paths(_)
Paths(node) ==
  {<<>>} \cup UNION {{<<i>> \o p : p \in Paths(Children(node)[i])} :
                      i \in DOMAIN Children(node)}

CallPaths == {p \in Paths(ast) : NodeAt(ast, p).type = "CallExpression"}

\* The character c at s[i], outside a string literal.
InQuote(s, i) == Cardinality({k \in 1..(i - 1) : s[k] = "\""}) % 2 = 1
Code(s, i, c) == i \in DOMAIN s /\ s[i] = c /\ ~InQuote(s, i)

\* How many calls are open after s[i].
DepthAfter(s, i) ==
  Cardinality({k \in 1..i : Code(s, k, "(")}) - Cardinality({k \in 1..i : Code(s, k, ")")})

\* The ")" that end a top-level call, and those that end a call that is an argument.
TopLevelCloses == {i \in DOMAIN output : Code(output, i, ")") /\ DepthAfter(output, i) = 0}
NestedCloses == {i \in DOMAIN output : Code(output, i, ")") /\ DepthAfter(output, i) > 0}

\* C1: in the output of compiler for a well-formed source program, the text
\* of a call that is an argument of another call is not followed by ';',
\* the text of every top-level call is followed by exactly one ';', and the
\* output has as many of each as the source program has.
C1_StatementTerminators ==
  (pc = "done" /\ input \in ProgramInputs) =>
    /\ \A i \in NestedCloses : ~Code(output, i + 1, ";")
    /\ \A i \in TopLevelCloses :
         Code(output, i + 1, ";") /\ ~Code(output, i + 2, ";")
    /\ \A i \in DOMAIN output : Code(output, i, ";") => (i - 1) \in TopLevelCloses
    /\ Cardinality(TopLevelCloses) = Cardinality({p \in CallPaths : Len(p) = 1})
    /\ Cardinality(NestedCloses) = Cardinality({p \in CallPaths : Len(p) > 1})

C1_Witness ==
  /\ pc = "done"
  /\ input \in ProgramInputs
  /\ NestedCloses # {}
  /\ TopLevelCloses # {}

\* The target objects of a type, and the arrays of the target AST.
TargetOfType(t) == {a \in DOMAIN heap : heap[a].type = t}
ArgumentArrays == {heap[a].arguments : a \in TargetOfType("CallExpression")}
Elems(arr) == {heap[arr].elems[i] : i \in DOMAIN heap[arr].elems}

\* C2: in the tree transformer returns, an ExpressionStatement is an element
\* of Program.body and of no arguments array, is no callee and no
\* expression of a statement, and the callee of every CallExpression is an
\* Identifier.
C2_StatementsOnlyInBody ==
  pc \in {"transformed", "done"} =>
    /\ \A s \in TargetOfType("ExpressionStatement") :
         /\ s \in Elems(heap[newAst].body)
         /\ \A arr \in ArgumentArrays : s \notin Elems(arr)
         /\ \A c \in TargetOfType("CallExpression") : heap[c].callee # s
         /\ \A t \in TargetOfType("ExpressionStatement") : heap[t].expression # s
    /\ \A c \in TargetOfType("CallExpression") : heap[heap[c].callee].type = "Identifier"

C2_Witness ==
  /\ pc = "transformed"
  /\ TargetOfType("ExpressionStatement") # {}
  /\ \E arr \in ArgumentArrays : \E c \in Elems(arr) : heap[c].type = "CallExpression"

\* The characters the claim names: whitespace, parens, digits, ASCII letters
\* and the double quote.
KnownChars ==
  {"(", ")", "\""} \cup WhitespaceChars \cup DigitChars \cup LowerChars \cup UpperChars

\* C3: a step of tokenizer taken with the scan at a character that is none
\* of whitespace, paren, digit, letter or double quote throws, and leaves
\* tokenizer without a returned token sequence.
C3_UnknownCharThrows ==
  [][(AtScan /\ char \notin KnownChars) =>
       (pc' = "threw"
        /\ error' = "TypeError: I dont know what this character is")]_vars

C3_Witness ==
  /\ pc = "threw"
  /\ error = "TypeError: I dont know what this character is"
  /\ char = "@"
  /\ tokens # <<>>

\* C4: with the string loop at the end of the input (no closing quote
\* found), tokenizer stops there and fails with an unterminated-string
\* error.
C4_UnterminatedStringFails ==
  [][(pc = "tok_string" /\ current >= Len(input)) =>
       (pc' = "threw"
        /\ error' = "LexError: UnterminatedString"
        /\ current' = current)]_vars

\* A call is opened by the first token and the tokens run out before it is
\* closed.
RECURSIVE OpenAfter(_, _)
OpenAfter(toks, k) ==
  IF k = 0 THEN 0
  ELSE OpenAfter(toks, k - 1)
       + (IF toks[k] = Token("paren", <<"(">>) THEN 1
          ELSE IF toks[k] = Token("paren", <<")">>) THEN -1 ELSE 0)

Unclosed(toks) ==
  /\ toks # <<>>
  /\ \A k \in DOMAIN toks : OpenAfter(toks, k) > 0

\* C5: for tokens whose call is never closed, parser returns no Program and
\* does not go on without an error: it neither loops on a token nor ends by
\* running out of memory.
C5_UnclosedCallFails ==
  Unclosed(tokens) =>
    /\ pc \notin {"parsed", "walk_spin", "crashed"}
    /\ (pc = "parser" => Len(ast.body) <= current)

\* The token walk() is called on at the top level.
AtTopLevelWalk == pc = "parser" /\ current < Len(tokens)
IsWalkable(token) ==
  token.type \in {"number", "string"} \/ token = Token("paren", <<"(">>)

\* C6: a step of parser taken with walk() called at the top level on a token
\* that is no number, no string and no "(" throws an unexpected-token
\* error, and no step leaves walk() looping on such a token among the
\* params of a call.
C6_UnexpectedTokenFails ==
  [][/\ (AtTopLevelWalk /\ ~IsWalkable(tokens[current + 1])) =>
          (pc' = "threw" /\ error' = "ParseError: UnexpectedToken")
     /\ pc' # "walk_spin"]_vars

\* The letters that end at input[current - 1]: the run the name loop has read.
AsciiLetters == LowerChars \cup UpperChars
RECURSIVE LetterRunBefore(_, _)
LetterRunBefore(s, i) ==
  IF i = 0 \/ s[i] \notin AsciiLetters THEN <<>>
  ELSE Append(LetterRunBefore(s, i - 1), s[i])

\* C7: when the name loop stands after the last letter of a run, at a
\* character that is no letter or at the end of the input, its next step
\* pushes one name token whose value is the run, and the scan goes on from
\* there.
C7_NameRunEnds ==
  [][(pc = "tok_name" /\ CharAt(input, current) \notin AsciiLetters) =>
       (/\ pc' = "tokenizer"
        /\ current' = current
        /\ tokens' = Append(tokens, Token("name", LetterRunBefore(input, current))))]_vars

\* C8: the name of every CallExpression parser has built is the value of a
\* name token that follows a "(".
C8_CallNameIsNameToken ==
  pc \in {"parser", "parsed"} =>
    \A p \in CallPaths :
      \E k \in DOMAIN tokens :
        /\ tokens[k] = Token("paren", <<"(">>)
        /\ (k + 1) \in DOMAIN tokens
        /\ tokens[k + 1] = Token("name", NodeAt(ast, p).name)

\* The calls of the recorded traversal.
Calls(kind, p) ==
  {i \in DOMAIN trace : trace[i].kind = kind /\ trace[i].node = p}
TheCall(kind, p) == CHOOSE i \in Calls(kind, p) : TRUE
IsProperPrefix(p, q) == Len(p) < Len(q) /\ SubSeq(q, 1, Len(p)) = p
ParentOf(p) == IF p = <<>> THEN null ELSE SubSeq(p, 1, Len(p) - 1)

\* C9: traverser calls enter and exit once for every node and nothing else,
\* enter of a node before and exit after every call for a descendant, all
\* calls of a child before those of the children to its right, each with
\* the node's parent, which is null for the root alone.
C9_TraversalOrder ==
  pc = "traversed" =>
    /\ Len(trace) = 2 * Cardinality(Paths(ast))
    /\ \A p \in Paths(ast) :
         /\ Cardinality(Calls("enter", p)) = 1
         /\ Cardinality(Calls("exit", p)) = 1
         /\ TheCall("enter", p) < TheCall("exit", p)
    /\ \A p, q \in Paths(ast) :
         IsProperPrefix(p, q) =>
           /\ TheCall("enter", p) < TheCall("enter", q)
           /\ TheCall("exit", q) < TheCall("exit", p)
    /\ \A p, q \in Paths(ast) :
         (/\ p # <<>> /\ q # <<>>
          /\ ParentOf(p) = ParentOf(q)
          /\ p[Len(p)] < q[Len(q)]) =>
           TheCall("exit", p) < TheCall("enter", q)
    /\ \A i \in DOMAIN trace :
         /\ trace[i].parent = ParentOf(trace[i].node)
         /\ (trace[i].parent = null <=> trace[i].node = <<>>)

C9_Witness ==
  /\ pc = "traversed"
  /\ \E p \in Paths(ast) : Len(p) = 2 /\ p[2] = 2

\* The objects an object of the target heap refers to.
Refs(a) ==
  LET o == heap[a] IN
  IF o.type = "Array" THEN Elems(a)
  ELSE IF o.type = "Program" THEN {o.body}
  ELSE IF o.type = "ExpressionStatement" THEN {o.expression}
  ELSE IF o.type = "CallExpression" THEN {o.callee, o.arguments}
  ELSE {}

RECURSIVE ReachableIn(_, _)
ReachableIn(S, n) ==
  IF n = 0 THEN S
  ELSE ReachableIn(S \cup UNION {Refs(a) : a \in S}, n - 1)

\* What a is reached from in one or more references.
ReachableFrom(a) == ReachableIn(Refs(a), Len(heap))

Acyclic == \A a \in DOMAIN heap : a \notin ReachableFrom(a)

\* C10 as claimed: once transformer has returned, no node of the source AST
\* carries a reference to a container of the target AST, and the target
\* tree has no cycle.
C10_LinkageDoesNotSurvive ==
  pc \in {"transformed", "done"} => (DOMAIN context = {} /\ Acyclic)

\* C10 as amended: once transformer has returned, the source Program and
\* every source CallExpression still carry _context, the target array their
\* children were appended into (newAst.body for the Program, the arguments
\* of its own target CallExpression for a call); no literal carries one, and
\* the target tree has no cycle.
C10_LinkageSurvivesOnContainers ==
  pc \in {"transformed", "done"} =>
    /\ DOMAIN context = {<<>>} \cup CallPaths
    /\ context[<<>>] = heap[newAst].body
    /\ \A p \in CallPaths :
         /\ \E c \in TargetOfType("CallExpression") :
              /\ heap[c].arguments = context[p]
              /\ heap[heap[c].callee].name = NodeAt(ast, p).name
         /\ Len(heap[context[p]].elems) = Len(NodeAt(ast, p).params)
         /\ \A q \in DOMAIN context : q # p => context[q] # context[p]
    /\ Acyclic

C10_Witness ==
  /\ pc = "transformed"
  /\ \E p \in DOMAIN context : Len(p) = 2 /\ heap[context[p]].elems # <<>>

====
